---- MODULE Spec2Model ----
(***************************************************************************)
(* Model of the SparkAudio/VoxBox syllable annotation code:                *)
(*   tools/text/syllable_tokenizer.py  SyllableTokenizer (sonority map,    *)
(*                                     tokenize, repair passes, syllable)  *)
(*   tools/text/text2syllable.py       split_zh_en, text2syllables         *)
(* Python lists are TLA+ sequences (1-based); a phoneme is a string.       *)
(***************************************************************************)
EXTENDS Integers, Sequences, FiniteSets, TLC

VARIABLES
    built,        \* outcome of SyllableTokenizer.__init__: "none", "ok", "IndexError", "TypeError"
    vowels,       \* self.vowels (a list)
    phoneme_map,  \* self.phoneme_map (a dict: symbol -> sonority level)
    pc,           \* position of the call under way
    token,        \* argument of tokenize
    scanned,      \* syllable_list after the trigram loop (line 394)
    merged,       \* syllable_list after validate_syllables (line 397)
    result,       \* value returned by tokenize
    revalidated,  \* the two repair passes applied once more to result
    arg_lang,     \* argument lang of SyllableTokenizer.__init__
    arg_hierarchy,           \* argument sonority_hierarchy of SyllableTokenizer.__init__
    phones,       \* argument of syllable
    phone_nums,   \* argument of syllable
    syllables,    \* the list of syllables built by syllable / by text2syllables
    phone_nums_in_syllable,  \* second list returned by syllable
    text,         \* argument of split_zh_en / of text2syllables
    segments,     \* value returned by split_zh_en
    normalized_text,  \* text2syllables: the text after normalization dispatch
    parts,        \* text2syllables: split_zh_en(clean_text)
    part_i,       \* text2syllables: number of parts already processed
    calls,        \* text2syllables: the collaborator calls made, in order
    fault,        \* text2syllables: the collaborator call that raised, or "none"
    ret           \* text2syllables: the record returned

instVars  == <<built, vowels, phoneme_map, arg_lang, arg_hierarchy>>
tokVars   == <<token, scanned, merged, result, revalidated>>
alignVars == <<phones, phone_nums, phone_nums_in_syllable>>
segVars   == <<segments>>
t2sVars   == <<normalized_text, parts, part_i, calls, fault, ret>>

vars == <<instVars, tokVars, alignVars, segVars, t2sVars, pc, syllables, text>>

----------------------------------------------------------------------------
(* Bounds of the model                                                     *)

MaxLen == 5

\* longest phone list and largest number of words given to syllable
MaxPhones == 4
MaxWords == 2

\* longest text given to split_zh_en
MaxText == 5

\* longest text given to text2syllables
MaxTextLen == 4

\* largest number of levels, and of symbols in a level, of a supplied hierarchy
MaxLevels == 2
MaxLevelLen == 2

\* Phoneme symbols the inputs are drawn from: two vowels, consonants of three
\* different sonority levels, and one symbol the sonority map does not hold.
Phonemes == {"AH0", "AO1", "W", "N", "D", "?"}

RECURSIVE SeqsUpTo(_, _)
SeqsUpTo(S, n) ==
    IF n = 0 THEN {<<>>}
    ELSE LET shorter == SeqsUpTo(S, n - 1)
         IN  shorter \cup {Append(s, x) : s \in {t \in shorter : Len(t) = n - 1}, x \in S}

----------------------------------------------------------------------------
(* Generic list helpers                                                    *)

RECURSIVE Flatten(_)
Flatten(ss) == IF ss = <<>> THEN <<>> ELSE Head(ss) \o Flatten(Tail(ss))

RECURSIVE SumSeq(_)
SumSeq(s) == IF s = <<>> THEN 0 ELSE Head(s) + SumSeq(Tail(s))

\* list.count(x)
Count(s, x) == Cardinality({i \in DOMAIN s : s[i] = x})

Last(s) == s[Len(s)]

----------------------------------------------------------------------------
(* SyllableTokenizer.__init__                                              *)

\* str.upper() on the symbols the model uses
Upper(c) ==
    CASE c = "a" -> "A"
      [] c = "l" -> "L"
      [] OTHER   -> c

stresses == <<"0", "1", "2">>

en_bases == <<"AO", "AA", "IY", "UW", "EH", "IH", "UH", "AH", "AE", "EY", "AY", "OW", "AW", "OY", "ER">>

\* [base + stress for base in sonority_hierarchy[0] for stress in stresses]
en_vowels ==
    [k \in 1..(Len(en_bases) * Len(stresses)) |->
        en_bases[((k - 1) \div Len(stresses)) + 1] \o stresses[((k - 1) % Len(stresses)) + 1]]

default_hierarchy ==
    << en_vowels,
       <<"Y", "W">>,
       <<"L", "EL", "R", "DX", "NX">>,
       <<"M", "EM", "N", "EN", "NG", "ENG">>,
       <<"P", "B", "T", "D", "K", "G", "CH", "JH", "F", "V", "TH", "DH", "S", "Z", "SH", "ZH", "HH">> >>

Elems(s) == {s[i] : i \in DOMAIN s}

\* the keys each level writes: every symbol and its upper-cased form
LevelKeys(level) == Elems(level) \cup {Upper(c) : c \in Elems(level)}

\* the dict built by the loop of lines 267-272: a later level overwrites an earlier one
build_map(h) ==
    LET keys == UNION {LevelKeys(h[j]) : j \in DOMAIN h}
        lastLevel(c) == CHOOSE j \in DOMAIN h :
                            /\ c \in LevelKeys(h[j])
                            /\ \A k \in DOMAIN h : c \in LevelKeys(h[k]) => k <= j
    IN  [c \in keys |-> Len(h) - (lastLevel(c) - 1)]

\* The sonority_hierarchy argument: the default value False, or a list of levels.
NoHierarchy == [is_list |-> FALSE, levels |-> <<>>]
Hierarchy(levels) == [is_list |-> TRUE, levels |-> levels]

\* __init__(lang, sonority_hierarchy): the outcome and the fields it sets.
\* "not sonority_hierarchy" holds of False and of the empty list.
init(lang, sonority_hierarchy) ==
    LET falsy == ~sonority_hierarchy.is_list \/ sonority_hierarchy.levels = <<>>
        h     == IF falsy /\ lang = "en" THEN Hierarchy(default_hierarchy) ELSE sonority_hierarchy
    IN  IF ~h.is_list THEN [status |-> "TypeError", vowels |-> <<>>, phoneme_map |-> <<>>]
        ELSE IF h.levels = <<>> THEN [status |-> "IndexError", vowels |-> <<>>, phoneme_map |-> <<>>]
        ELSE [status |-> "ok", vowels |-> h.levels[1], phoneme_map |-> build_map(h.levels)]

----------------------------------------------------------------------------
(* SyllableTokenizer.assign_values, ngrams, tokenize and the repair passes  *)
(* These read the fields of the instance: vs = self.vowels,                *)
(* pm = self.phoneme_map.                                                  *)

\* assign_values keeping a symbol the map does not hold, with the lowest value
RECURSIVE assign_values_keep_unknown(_, _)
assign_values_keep_unknown(pm, tok) ==
    IF tok = <<>> THEN <<>>
    ELSE IF Head(tok) \in DOMAIN pm
         THEN <<<<Head(tok), pm[Head(tok)]>>>> \o assign_values_keep_unknown(pm, Tail(tok))
         ELSE <<<<Head(tok), 0>>>> \o assign_values_keep_unknown(pm, Tail(tok))

RECURSIVE assign_values(_, _)
assign_values(pm, tok) ==
    IF tok = <<>> THEN <<>>
    ELSE IF Head(tok) \in DOMAIN pm
         THEN <<<<Head(tok), pm[Head(tok)]>>>> \o assign_values(pm, Tail(tok))
         ELSE assign_values(pm, Tail(tok))

\* sum(token.count(x) for x in self.vowels)
RECURSIVE vowel_count(_, _)
vowel_count(vs, tok) ==
    IF vs = <<>> THEN 0 ELSE Count(tok, Head(vs)) + vowel_count(Tail(vs), tok)

\* list(ngrams(sequence, n=3))
ngrams3(s) == [k \in 1..(IF Len(s) >= 3 THEN Len(s) - 2 ELSE 0) |-> <<s[k], s[k + 1], s[k + 2]>>]

\* scan_step with the valley handled like the plateau: the focal phoneme closes the
\* open syllable instead of opening a new one
scan_step_valley_closes(st, trigram) ==
    LET prev_value    == trigram[1][2]
        focal_value   == trigram[2][2]
        next_value    == trigram[3][2]
        focal_phoneme == trigram[2][1]
    IN  IF \/ prev_value >= focal_value /\ focal_value = next_value
           \/ prev_value > focal_value /\ focal_value < next_value
        THEN [syllable_list |-> Append(st.syllable_list, Append(st.syllable, focal_phoneme)),
              syllable      |-> <<>>]
        ELSE [syllable_list |-> st.syllable_list,
              syllable      |-> Append(st.syllable, focal_phoneme)]

\* one pass of the loop body of lines 371-391 on the state (syllable_list, syllable)
scan_step(st, trigram) ==
    LET prev_value    == trigram[1][2]
        focal_value   == trigram[2][2]
        next_value    == trigram[3][2]
        focal_phoneme == trigram[2][1]
    IN  IF prev_value >= focal_value /\ focal_value = next_value
        THEN [syllable_list |-> Append(st.syllable_list, Append(st.syllable, focal_phoneme)),
              syllable      |-> <<>>]
        ELSE IF prev_value > focal_value /\ focal_value < next_value
        THEN [syllable_list |-> Append(st.syllable_list, st.syllable),
              syllable      |-> <<focal_phoneme>>]
        ELSE [syllable_list |-> st.syllable_list,
              syllable      |-> Append(st.syllable, focal_phoneme)]

RECURSIVE scan_loop(_, _)
scan_loop(st, trigrams) ==
    IF trigrams = <<>> THEN st
    ELSE scan_loop(scan_step(st, Head(trigrams)), Tail(trigrams))

\* lines 369-394: the tentative syllable list
scan(syllables_values) ==
    LET st == scan_loop([syllable_list |-> <<>>, syllable |-> <<syllables_values[1][1]>>],
                        ngrams3(syllables_values))
    IN  Append(st.syllable_list, Append(st.syllable, Last(syllables_values)[1]))

has_vowel(vs, syllable) == \E i \in DOMAIN syllable : syllable[i] \in Elems(vs)

\* validate_step with the merge left out: a syllable without a vowel is kept as it is
validate_step_no_merge(vs, st, syllable) ==
    [valid_syllables |-> Append(st.valid_syllables, syllable), front |-> st.front]

\* one pass of the loop body of validate_syllables on (valid_syllables, front)
validate_step(vs, st, syllable) ==
    IF ~has_vowel(vs, syllable)
    THEN IF Len(st.valid_syllables) = 0
         THEN [valid_syllables |-> st.valid_syllables, front |-> st.front \o syllable]
         ELSE [valid_syllables |->
                   [st.valid_syllables EXCEPT ![Len(st.valid_syllables)] = @ \o syllable],
               front |-> st.front]
    ELSE IF Len(st.valid_syllables) = 0
         THEN [valid_syllables |-> <<st.front \o syllable>>, front |-> st.front]
         ELSE [valid_syllables |-> Append(st.valid_syllables, syllable), front |-> st.front]

RECURSIVE validate_loop(_, _, _)
validate_loop(vs, st, syllable_list) ==
    IF syllable_list = <<>> THEN st
    ELSE validate_loop(vs, validate_step(vs, st, Head(syllable_list)), Tail(syllable_list))

validate_syllables(vs, syllable_list) ==
    validate_loop(vs, [valid_syllables |-> <<>>, front |-> <<>>], syllable_list).valid_syllables

\* 0-based index of the first vowel of a syllable, -1 when it has none
first_vowel_i(vs, syllable) ==
    IF has_vowel(vs, syllable)
    THEN (CHOOSE i \in DOMAIN syllable :
              /\ syllable[i] \in Elems(vs)
              /\ \A j \in DOMAIN syllable : syllable[j] \in Elems(vs) => i <= j) - 1
    ELSE -1

multi_vowel(vs, syllable) ==
    Cardinality({i \in DOMAIN syllable : syllable[i] \in Elems(vs)}) > 1

\* the assertion of line 342, for every syllable of the list
assert_ok(vs, syllable_list) ==
    \A k \in DOMAIN syllable_list : first_vowel_i(vs, syllable_list[k]) > -1

\* validate2_step with the split left out
validate2_step_no_split(vs, syllable) == << syllable >>

\* validate2_step splitting after the first vowel whether or not a second one follows
validate2_step_always_split(vs, syllable) ==
    IF first_vowel_i(vs, syllable) + 1 < Len(syllable)
    THEN << SubSeq(syllable, 1, first_vowel_i(vs, syllable) + 1),
            SubSeq(syllable, first_vowel_i(vs, syllable) + 2, Len(syllable)) >>
    ELSE << syllable >>

\* lines 344-348: the syllables one syllable of the list contributes
validate2_step(vs, syllable) ==
    IF multi_vowel(vs, syllable)
    THEN << SubSeq(syllable, 1, first_vowel_i(vs, syllable) + 1),
            SubSeq(syllable, first_vowel_i(vs, syllable) + 2, Len(syllable)) >>
    ELSE << syllable >>

\* validate_syllables2 on a list that passes the assertion
RECURSIVE validate_syllables2(_, _)
validate_syllables2(vs, syllable_list) ==
    IF syllable_list = <<>> THEN <<>>
    ELSE validate2_step(vs, Head(syllable_list)) \o validate_syllables2(vs, Tail(syllable_list))

\* tokenize(token) fails the assertion of line 342
tokenize_raises(vs, pm, tok) ==
    /\ vowel_count(vs, tok) > 1
    /\ ~assert_ok(vs, validate_syllables(vs, scan(assign_values(pm, tok))))

\* tokenize with the shortcut of line 366 taken only when there is no vowel at all
tokenize_no_shortcut(vs, pm, tok) ==
    IF vowel_count(vs, tok) <= 0 THEN <<tok>>
    ELSE IF tokenize_raises(vs, pm, tok) THEN <<>>
    ELSE validate_syllables2(vs, validate_syllables(vs, scan(assign_values(pm, tok))))

\* tokenize(token): the list returned (the empty list when the assertion fails)
tokenize(vs, pm, tok) ==
    IF vowel_count(vs, tok) <= 1 THEN <<tok>>
    ELSE IF tokenize_raises(vs, pm, tok) THEN <<>>
    ELSE validate_syllables2(vs, validate_syllables(vs, scan(assign_values(pm, tok))))

----------------------------------------------------------------------------
(* Specification of tokenize on the default English tokenizer (SSP)        *)

SSP == init("en", NoHierarchy)

\* the module-level instance SSP = SyllableTokenizer()
InitSSP ==
    /\ arg_lang = "en"
    /\ arg_hierarchy = NoHierarchy
    /\ built = SSP.status
    /\ vowels = SSP.vowels
    /\ phoneme_map = SSP.phoneme_map

\* no call of tokenize / syllable / split_zh_en under way
IdleTok == token = <<>> /\ scanned = <<>> /\ merged = <<>> /\ result = <<>> /\ revalidated = <<>>
IdleAlign == phones = <<>> /\ phone_nums = <<>> /\ phone_nums_in_syllable = <<>>
IdleSeg == segments = <<>>
NoReturn == [syllable_num |-> -1, normalized_text |-> <<>>, syllables |-> <<>>]
IdleT2S ==
    /\ normalized_text = <<>> /\ parts = <<>> /\ part_i = 0
    /\ calls = <<>> /\ fault = "none" /\ ret = NoReturn

Init ==
    /\ InitSSP
    /\ pc = "start"
    /\ token \in SeqsUpTo(Phonemes, MaxLen)
    /\ scanned = <<>>
    /\ merged = <<>>
    /\ result = <<>>
    /\ revalidated = <<>>
    /\ IdleAlign /\ IdleSeg /\ IdleT2S
    /\ syllables = <<>>
    /\ text = <<>>

\* tokenize returns at line 367: at most one vowel
TokenizeShort ==
    /\ pc = "start"
    /\ vowel_count(vowels, token) <= 1
    /\ result' = tokenize(vowels, phoneme_map, token)
    /\ pc' = "done"
    /\ UNCHANGED <<instVars, alignVars, segVars, t2sVars, syllables, text, token, scanned, merged, revalidated>>

\* tokenize runs the trigram loop and the two repair passes (lines 369-398)
TokenizeScan ==
    /\ pc = "start"
    /\ vowel_count(vowels, token) > 1
    /\ scanned' = scan(assign_values(phoneme_map, token))
    /\ merged' = validate_syllables(vowels, scanned')
    /\ IF assert_ok(vowels, merged')
       THEN /\ result' = tokenize(vowels, phoneme_map, token)
            /\ pc' = "done"
       ELSE /\ result' = <<>>
            /\ pc' = "AssertionError"
    /\ UNCHANGED <<instVars, alignVars, segVars, t2sVars, syllables, text, token, revalidated>>

\* the two repair passes applied to the list tokenize returned
Revalidate ==
    /\ pc = "done"
    /\ LET m == validate_syllables(vowels, result)
       IN  IF assert_ok(vowels, m)
           THEN /\ revalidated' = validate_syllables2(vowels, m)
                /\ pc' = "revalidated"
           ELSE /\ revalidated' = <<>>
                /\ pc' = "revalidate_failed"
    /\ UNCHANGED <<instVars, alignVars, segVars, t2sVars, syllables, text, token, scanned, merged, result>>

Next == TokenizeShort \/ TokenizeScan \/ Revalidate

Spec == Init /\ [][Next]_vars

----------------------------------------------------------------------------
(* Properties of tokenize and of the repair passes                         *)

\* number of vowel phonemes (symbols of hierarchy level 0) in a list of phonemes
NumVowels(s) == Cardinality({i \in DOMAIN s : \E j \in DOMAIN vowels : vowels[j] = s[i]})

IsVowel(c) == \E j \in DOMAIN vowels : vowels[j] = c

HasUnknown(s) == \E i \in DOMAIN s : s[i] \notin DOMAIN phoneme_map

\* C1 (as claimed): for every phoneme sequence, unknown symbols included, the
\* syllables tokenize returns, concatenated in order, are the input sequence.
CoverageAll == pc = "done" => Flatten(result) = token

\* C2: every syllable tokenize returns holds exactly one vowel, unless the input
\* holds at most one vowel, and then the single syllable returned is the input.
VowelInvariant ==
    pc = "done" =>
        IF NumVowels(token) <= 1
        THEN result = <<token>>
        ELSE \A k \in DOMAIN result : NumVowels(result[k]) = 1

\* a call in which the split pass cut a two-vowel syllable and three syllables came out
VowelInvariantWitness ==
    /\ pc = "done"
    /\ NumVowels(token) >= 3
    /\ \E k \in DOMAIN merged : NumVowels(merged[k]) = 2
    /\ Len(result) >= 3

\* C3: every syllable that enters the single-vowel repair pass holds a vowel, so
\* the assertion of validate_syllables2 never fails.
AssertNeverFails ==
    /\ pc # "AssertionError"
    /\ (pc = "done" /\ NumVowels(token) > 1) =>
           \A k \in DOMAIN merged : NumVowels(merged[k]) >= 1

\* a call in which the trigram scan left a syllable without a vowel and the merge
\* pass joined it to its neighbour
AssertNeverFailsWitness ==
    /\ pc = "done"
    /\ \E k \in DOMAIN scanned : NumVowels(scanned[k]) = 0
    /\ Len(merged) < Len(scanned)

\* C4 (as claimed): a phoneme sequence of length 1 or 2 comes back as one syllable.
ShortNeverSplit ==
    (pc = "done" /\ Len(token) \in {1, 2}) => result = <<token>>

\* C4 (amended): a sequence of length 1 or 2 comes back as one syllable, except a
\* pair of two vowels, which comes back as two one-vowel syllables.
ShortSplitOnlyVowelPair ==
    (pc = "done" /\ Len(token) \in {1, 2}) =>
        IF Len(token) = 2 /\ IsVowel(token[1]) /\ IsVowel(token[2])
        THEN result = << <<token[1]>>, <<token[2]>> >>
        ELSE result = <<token>>

\* a two-phoneme input with one vowel and one unknown symbol, returned whole
ShortSplitWitness ==
    /\ pc = "done"
    /\ Len(token) = 2
    /\ NumVowels(token) = 1
    /\ HasUnknown(token)
    /\ result = <<token>>

\* C5 (as claimed): the two repair passes leave every list tokenize returns unchanged.
RepairIdempotentAll ==
    /\ pc # "revalidate_failed"
    /\ pc = "revalidated" => revalidated = result

\* C5 (amended): the two repair passes leave the list tokenize returns unchanged
\* whenever the input holds at least one vowel.
RepairIdempotentWithVowel ==
    /\ pc # "revalidate_failed"
    /\ (pc = "revalidated" /\ NumVowels(token) >= 1) => revalidated = result

\* the repair passes applied again to a list of several syllables
RepairIdempotentWitness ==
    /\ pc = "revalidated"
    /\ NumVowels(token) >= 2
    /\ Len(result) >= 2
    /\ \E k \in DOMAIN result : Len(result[k]) >= 2
    /\ revalidated = result

\* C6 (as claimed): no syllable of the trigram scan, of the merge pass, of the split
\* pass or of the list returned is empty, for every input, the empty one included.
NoEmptySyllable ==
    pc = "done" =>
        /\ \A k \in DOMAIN scanned : scanned[k] # <<>>
        /\ \A k \in DOMAIN merged : merged[k] # <<>>
        /\ \A k \in DOMAIN result : result[k] # <<>>

----------------------------------------------------------------------------
(* SyllableTokenizer.syllable: per-word phone counts to syllables          *)

Min(a, b) == IF a <= b THEN a ELSE b

\* sep.join(strs) on a list of strings
RECURSIVE join(_, _)
join(sep, strs) ==
    IF strs = <<>> THEN ""
    ELSE IF Len(strs) = 1 THEN strs[1]
    ELSE strs[1] \o sep \o join(sep, Tail(strs))

\* s[start:end] for 0 <= start
slice(s, start, end) == SubSeq(s, start + 1, Min(end, Len(s)))

\* one pass of the loop body of lines 417-428 on (start, syllables, phone_nums_in_syllable)
syllable_step(vs, pm, phs, st, n) ==
    LET end   == st.start + n
        phone == slice(phs, st.start, end)
    IN  IF n <= 2
        THEN [start |-> end,
              raised |-> st.raised,
              syllables |-> Append(st.syllables, join(" ", phone)),
              phone_nums_in_syllable |-> Append(st.phone_nums_in_syllable, n)]
        ELSE LET syllable == tokenize(vs, pm, phone)
             IN  [start |-> end,
                  raised |-> st.raised \/ tokenize_raises(vs, pm, phone),
                  syllables |-> st.syllables \o
                      [k \in 1..Len(syllable) |-> join(" ", syllable[k])],
                  phone_nums_in_syllable |-> st.phone_nums_in_syllable \o
                      [k \in 1..Len(syllable) |-> Len(syllable[k])]]

RECURSIVE syllable_loop(_, _, _, _, _)
syllable_loop(vs, pm, phs, st, nums) ==
    IF nums = <<>> \/ st.raised THEN st
    ELSE syllable_loop(vs, pm, phs, syllable_step(vs, pm, phs, st, Head(nums)), Tail(nums))

\* syllable(phones, phone_nums): the two lists returned (raised: the assertion of
\* validate_syllables2 failed in one of the words)
syllable(vs, pm, phs, nums) ==
    syllable_loop(vs, pm, phs,
                  [start |-> 0, raised |-> FALSE, syllables |-> <<>>,
                   phone_nums_in_syllable |-> <<>>],
                  nums)

\* Phone symbols the phone lists are drawn from
AlignPhonemes == {"AH0", "AO1", "N", "?"}

\* phone_nums: per-word phone counts that sum to len(phones)
PhoneNums(n) == {nums \in SeqsUpTo(0..MaxPhones, MaxWords) : SumSeq(nums) = n}

InitAlign ==
    /\ InitSSP
    /\ pc = "align_start"
    /\ phones \in SeqsUpTo(AlignPhonemes, MaxPhones)
    /\ phone_nums \in PhoneNums(Len(phones))
    /\ phone_nums_in_syllable = <<>>
    /\ syllables = <<>>
    /\ IdleTok /\ IdleSeg /\ IdleT2S
    /\ text = <<>>

\* one call SSP.syllable(phones, phone_nums)
Syllable ==
    /\ pc = "align_start"
    /\ LET r == syllable(vowels, phoneme_map, phones, phone_nums)
       IN  IF r.raised
           THEN /\ pc' = "AssertionError"
                /\ UNCHANGED <<syllables, phone_nums_in_syllable>>
           ELSE /\ pc' = "aligned"
                /\ syllables' = r.syllables
                /\ phone_nums_in_syllable' = r.phone_nums_in_syllable
    /\ UNCHANGED <<instVars, tokVars, segVars, t2sVars, phones, phone_nums, text>>

NextAlign == Syllable

SpecAlign == InitAlign /\ [][NextAlign]_vars

\* C7 (as claimed): for phone_nums that sum to len(phones), syllable returns two
\* lists of equal length, and the per-syllable phone counts sum to len(phones).
AlignerConsumesAll ==
    pc = "aligned" =>
        /\ Len(syllables) = Len(phone_nums_in_syllable)
        /\ SumSeq(phone_nums_in_syllable) = Len(phones)

----------------------------------------------------------------------------
(* Construction of a tokenizer from a supplied hierarchy                   *)

\* Symbols the supplied hierarchies are made of
HierarchySymbols == {"a", "l", "T"}

\* The hierarchies supplied: the default argument, or a list of up to MaxLevels
\* levels of up to MaxLevelLen symbols (the empty list and empty levels included)
HierarchyInputs ==
    {NoHierarchy} \cup
    {Hierarchy(h) : h \in SeqsUpTo(SeqsUpTo(HierarchySymbols, MaxLevelLen), MaxLevels)}

InitBuild ==
    /\ pc = "build_start"
    /\ arg_lang \in {"en", "zh"}
    /\ arg_hierarchy \in HierarchyInputs
    /\ built = "none"
    /\ vowels = <<>>
    /\ phoneme_map = <<>>
    /\ IdleTok /\ IdleAlign /\ IdleSeg /\ IdleT2S
    /\ syllables = <<>>
    /\ text = <<>>

\* SyllableTokenizer(lang, sonority_hierarchy) returns an instance
ConstructOk ==
    /\ pc = "build_start"
    /\ init(arg_lang, arg_hierarchy).status = "ok"
    /\ built' = "ok"
    /\ vowels' = init(arg_lang, arg_hierarchy).vowels
    /\ phoneme_map' = init(arg_lang, arg_hierarchy).phoneme_map
    /\ pc' = "constructed"
    /\ UNCHANGED <<arg_lang, arg_hierarchy, tokVars, alignVars, segVars, t2sVars, syllables, text>>

\* SyllableTokenizer(lang, sonority_hierarchy) raises at line 266 (sonority_hierarchy[0])
ConstructRaises ==
    /\ pc = "build_start"
    /\ init(arg_lang, arg_hierarchy).status # "ok"
    /\ built' = init(arg_lang, arg_hierarchy).status
    /\ pc' = "construct_raised"
    /\ UNCHANGED <<vowels, phoneme_map, arg_lang, arg_hierarchy, tokVars, alignVars, segVars, t2sVars,
                   syllables, text>>

\* tokenize on the instance just built
TokenizeBuilt ==
    /\ pc = "constructed"
    /\ \E tok \in SeqsUpTo(HierarchySymbols, 2) :
          /\ token' = tok
          /\ IF tokenize_raises(vowels, phoneme_map, tok)
             THEN pc' = "AssertionError" /\ result' = <<>>
             ELSE pc' = "built_done" /\ result' = tokenize(vowels, phoneme_map, tok)
    /\ UNCHANGED <<instVars, scanned, merged, revalidated, alignVars, segVars, t2sVars, syllables, text>>

NextBuild == ConstructOk \/ ConstructRaises \/ TokenizeBuilt

SpecBuild == InitBuild /\ [][NextBuild]_vars

\* the supplied hierarchy is empty, or its level 0 (the vowel level) is empty
BadHierarchy ==
    /\ arg_hierarchy.is_list
    /\ \/ arg_hierarchy.levels = <<>>
       \/ arg_hierarchy.levels[1] = <<>>

\* C9 (as claimed): building fails whenever the supplied hierarchy is empty or its
\* vowel level is empty; no tokenizer is constructed from such a hierarchy.
ConfigErrorOnBadHierarchy ==
    (BadHierarchy /\ pc # "build_start") => built \notin {"ok", "none"}

----------------------------------------------------------------------------
(* split_zh_en: a text is a sequence of Unicode code points                *)

\* membership in the character class [UNICODE_ALL_CN] (tools/text/unicode.py):
\* the CJK ideograph range, the one line 65 of text2syllable.py spells out
IsCN(c) == c \in 19968..40959

\* str.isspace() of one character: what str.strip() removes
IsSpace(c) ==
    \/ c \in 9..13
    \/ c \in 28..32
    \/ c \in {133, 160, 5760, 8232, 8233, 8239, 8287, 12288}
    \/ c \in 8192..8202

\* re.findall('[CN]+|[^CN]+', text): the maximal runs of one character class
RECURSIVE findall_runs(_, _)
findall_runs(runs, txt) ==
    IF txt = <<>> THEN runs
    ELSE LET c == Head(txt)
         IN  IF runs # <<>> /\ IsCN(Last(runs)[1]) = IsCN(c)
             THEN findall_runs([runs EXCEPT ![Len(runs)] = Append(@, c)], Tail(txt))
             ELSE findall_runs(Append(runs, <<c>>), Tail(txt))

RECURSIVE lstrip(_)
lstrip(s) == IF s # <<>> /\ IsSpace(Head(s)) THEN lstrip(Tail(s)) ELSE s

RECURSIVE rstrip(_)
rstrip(s) == IF s # <<>> /\ IsSpace(Last(s)) THEN rstrip(SubSeq(s, 1, Len(s) - 1)) ELSE s

\* str.strip()
strip(s) == rstrip(lstrip(s))

\* [f(seg) for seg in segs if seg.strip()], f being strip
RECURSIVE strip_nonblank(_)
strip_nonblank(segs) ==
    IF segs = <<>> THEN <<>>
    ELSE IF strip(Head(segs)) # <<>>
         THEN <<strip(Head(segs))>> \o strip_nonblank(Tail(segs))
         ELSE strip_nonblank(Tail(segs))

HasSpace(s) == \E i \in DOMAIN s : IsSpace(s[i])

\* split_zh_en keeping only the runs that hold no whitespace at all
RECURSIVE strip_unspaced(_)
strip_unspaced(segs) ==
    IF segs = <<>> THEN <<>>
    ELSE IF ~HasSpace(Head(segs))
         THEN <<strip(Head(segs))>> \o strip_unspaced(Tail(segs))
         ELSE strip_unspaced(Tail(segs))

split_zh_en_unspaced(txt) == strip_unspaced(findall_runs(<<>>, txt))

\* split_zh_en(text)
split_zh_en(txt) == strip_nonblank(findall_runs(<<>>, txt))

\* Characters the texts are drawn from: two CJK ideographs, "a", "b", space, newline
SplitChars == {20320, 22909, 97, 98, 32, 10}

InitSplit ==
    /\ InitSSP
    /\ pc = "split_start"
    /\ text \in SeqsUpTo(SplitChars, MaxText)
    /\ segments = <<>>
    /\ IdleTok /\ IdleAlign /\ IdleT2S
    /\ syllables = <<>>

\* one call split_zh_en(text)
SplitZhEn ==
    /\ pc = "split_start"
    /\ segments' = split_zh_en(text)
    /\ pc' = "split_done"
    /\ UNCHANGED <<instVars, tokVars, alignVars, t2sVars, syllables, text>>

NextSplit == SplitZhEn

SpecSplit == InitSplit /\ [][NextSplit]_vars

\* a text with its whitespace characters removed
RECURSIVE RemoveSpace(_)
RemoveSpace(s) ==
    IF s = <<>> THEN <<>>
    ELSE IF IsSpace(Head(s)) THEN RemoveSpace(Tail(s))
    ELSE <<Head(s)>> \o RemoveSpace(Tail(s))

\* C8: the segments split_zh_en returns, concatenated in order, are the text's
\* non-whitespace characters in their original order (whitespace set aside on
\* both sides).
SegmentsReconstructText ==
    pc = "split_done" => RemoveSpace(Flatten(segments)) = RemoveSpace(text)

\* a mixed-script text with an inner space that is kept and outer whitespace that
\* is discarded
SegmentsReconstructWitness ==
    /\ pc = "split_done"
    /\ Len(segments) >= 2
    /\ \E k \in DOMAIN segments : HasSpace(segments[k])
    /\ Len(RemoveSpace(Flatten(segments))) < Len(Flatten(segments))
    /\ Len(Flatten(segments)) < Len(text)

----------------------------------------------------------------------------
(* text2syllables: normalization dispatch, cleanup, segmentation and the   *)
(* per-segment loop.  A Python string is a sequence of code points.  The   *)
(* normalizers (tn) and the grapheme-to-phoneme engine (g2p_en) are        *)
(* external libraries: each call either raises or returns a value.         *)

\* \d on the characters the model uses
IsDigit(c) == c \in 48..57

\* \w on the characters the model uses: ASCII letters, digits, underscore, ideographs
IsWord(c) == c \in 48..57 \/ c \in 65..90 \/ c = 95 \/ c \in 97..122 \/ c \in 19968..40959

has_numbers(txt) == \E i \in DOMAIN txt : IsDigit(txt[i])

\* is_chinese_context looking at the first character only (re.match for re.search)
is_chinese_context_match(txt) == txt # <<>> /\ IsCN(txt[1])

\* bool(re.search(CHINESE_PATTERN, text))
is_chinese_context(txt) == \E i \in DOMAIN txt : IsCN(txt[i])

\* re.sub(r'[^\w\s一-鿿]', '', normalized_text)
RECURSIVE clean(_)
clean(txt) ==
    IF txt = <<>> THEN <<>>
    ELSE IF IsWord(Head(txt)) \/ IsSpace(Head(txt)) \/ Head(txt) \in 19968..40959
         THEN <<Head(txt)>> \o clean(Tail(txt))
         ELSE clean(Tail(txt))

\* what a normalizer returns when it does not raise: every digit spelled out by
\* `word` (stand-in for the external library)
RECURSIVE spell_digits(_, _)
spell_digits(txt, word) ==
    IF txt = <<>> THEN <<>>
    ELSE IF IsDigit(Head(txt)) THEN word \o spell_digits(Tail(txt), word)
    ELSE <<Head(txt)>> \o spell_digits(Tail(txt), word)

TNZH_normalize(txt) == spell_digits(txt, <<19977>>)
TNEN_normalize(txt) == spell_digits(txt, <<116>>)

\* the lists G2PEN may return for a segment: phoneme symbols, " " between words
G2POutputs == { <<>>, <<"N", "AH0">>, <<"AH0", " ", "N", "AO1">> }

\* the characters of a symbol G2PEN returns
Spell(sym) ==
    CASE sym = "AH0" -> <<65, 72, 48>>
      [] sym = "AO1" -> <<65, 79, 49>>
      [] sym = "N"   -> <<78>>
      [] sym = " "   -> <<32>>

\* sentence2phones(part).split(): " ".join(G2PEN(part)).split()
RECURSIVE phones_split(_)
phones_split(g2p) ==
    IF g2p = <<>> THEN <<>>
    ELSE IF \A i \in DOMAIN Spell(Head(g2p)) : IsSpace(Spell(Head(g2p))[i])
         THEN phones_split(Tail(g2p))
         ELSE <<Head(g2p)>> \o phones_split(Tail(g2p))

\* sep.join(strs) on strings given as sequences of code points
RECURSIVE joinc(_, _)
joinc(sep, strs) ==
    IF strs = <<>> THEN <<>>
    ELSE IF Len(strs) = 1 THEN strs[1]
    ELSE strs[1] \o sep \o joinc(sep, Tail(strs))

\* ['-'.join(item) for item in SSP.tokenize(phones.split())]
en_syllables(vs, pm, g2p) ==
    LET toks == tokenize(vs, pm, phones_split(g2p))
    IN  [k \in 1..Len(toks) |->
            joinc(<<45>>, [i \in 1..Len(toks[k]) |-> Spell(toks[k][i])])]

\* lines 65-70: cleanup and segmentation of the normalized text
parts_of(ntext) == split_zh_en(clean(ntext))

\* Characters the texts are drawn from: an ideograph, "a", space, "3", "!"
T2SChars == {20320, 97, 32, 51, 33}

InitT2S ==
    /\ InitSSP
    /\ pc = "t2s_start"
    /\ text \in SeqsUpTo(T2SChars, MaxTextLen)
    /\ syllables = <<>>
    /\ IdleTok /\ IdleAlign /\ IdleSeg /\ IdleT2S

\* lines 56, 62-70: no digit, no normalizer is called
T2SSkipNormalize ==
    /\ pc = "t2s_start"
    /\ ~has_numbers(text)
    /\ normalized_text' = text
    /\ parts' = parts_of(text)
    /\ pc' = "t2s_loop"
    /\ UNCHANGED <<instVars, tokVars, alignVars, segVars, part_i, calls, fault, ret,
                   syllables, text>>

\* lines 56-59, 65-70: a digit and a CJK character, TNZH.normalize returns
T2SNormalizeZh ==
    /\ pc = "t2s_start"
    /\ has_numbers(text) /\ is_chinese_context(text)
    /\ calls' = Append(calls, [fn |-> "TNZH.normalize", arg |-> text])
    /\ normalized_text' = TNZH_normalize(text)
    /\ parts' = parts_of(normalized_text')
    /\ pc' = "t2s_loop"
    /\ UNCHANGED <<instVars, tokVars, alignVars, segVars, part_i, fault, ret, syllables, text>>

\* lines 56-61, 65-70: a digit and no CJK character, TNEN.normalize returns
T2SNormalizeEn ==
    /\ pc = "t2s_start"
    /\ has_numbers(text) /\ ~is_chinese_context(text)
    /\ calls' = Append(calls, [fn |-> "TNEN.normalize", arg |-> text])
    /\ normalized_text' = TNEN_normalize(text)
    /\ parts' = parts_of(normalized_text')
    /\ pc' = "t2s_loop"
    /\ UNCHANGED <<instVars, tokVars, alignVars, segVars, part_i, fault, ret, syllables, text>>

\* lines 59, 61: the normalizer called raises; nothing catches it
T2SNormalizeRaises ==
    /\ pc = "t2s_start"
    /\ has_numbers(text)
    /\ LET fn == IF is_chinese_context(text) THEN "TNZH.normalize" ELSE "TNEN.normalize"
       IN  /\ calls' = Append(calls, [fn |-> fn, arg |-> text])
           /\ fault' = fn
    /\ pc' = "t2s_raised"
    /\ UNCHANGED <<instVars, tokVars, alignVars, segVars, normalized_text, parts, part_i, ret,
                   syllables, text>>

\* lines 72-78: the next part starts with a CJK character
T2SPartZh ==
    /\ pc = "t2s_loop"
    /\ part_i < Len(parts)
    /\ LET part == parts[part_i + 1]
       IN  /\ part # <<>>
           /\ IsCN(part[1])
           /\ syllables' = syllables \o [k \in 1..Len(part) |-> <<part[k]>>]
    /\ part_i' = part_i + 1
    /\ UNCHANGED <<instVars, tokVars, alignVars, segVars, normalized_text, parts, calls, fault,
                   ret, pc, text>>

\* lines 72-87: the next part is not CJK, G2PEN returns g2p
T2SPartEn ==
    /\ pc = "t2s_loop"
    /\ part_i < Len(parts)
    /\ LET part == strip(parts[part_i + 1])
       IN  /\ part # <<>>
           /\ ~IsCN(parts[part_i + 1][1])
           /\ \E g2p \in G2POutputs :
                 /\ calls' = Append(calls, [fn |-> "G2PEN", arg |-> part])
                 /\ IF tokenize_raises(vowels, phoneme_map, phones_split(g2p))
                    THEN /\ fault' = "AssertionError"
                         /\ pc' = "t2s_raised"
                         /\ UNCHANGED <<syllables, part_i>>
                    ELSE /\ syllables' = syllables \o en_syllables(vowels, phoneme_map, g2p)
                         /\ part_i' = part_i + 1
                         /\ UNCHANGED <<fault, pc>>
    /\ UNCHANGED <<instVars, tokVars, alignVars, segVars, normalized_text, parts, ret, text>>

\* line 84: G2PEN raises on the next part; nothing catches it
T2SPartEnRaises ==
    /\ pc = "t2s_loop"
    /\ part_i < Len(parts)
    /\ LET part == strip(parts[part_i + 1])
       IN  /\ part # <<>>
           /\ ~IsCN(parts[part_i + 1][1])
           /\ calls' = Append(calls, [fn |-> "G2PEN", arg |-> part])
    /\ fault' = "G2PEN"
    /\ pc' = "t2s_raised"
    /\ UNCHANGED <<instVars, tokVars, alignVars, segVars, normalized_text, parts, part_i, ret,
                   syllables, text>>

\* lines 89-91: every part processed, the record is returned
T2SReturn ==
    /\ pc = "t2s_loop"
    /\ part_i = Len(parts)
    /\ ret' = [syllable_num    |-> Len(syllables),
               normalized_text |-> normalized_text,
               syllables       |-> joinc(<<32>>, syllables)]
    /\ pc' = "t2s_returned"
    /\ UNCHANGED <<instVars, tokVars, alignVars, segVars, normalized_text, parts, part_i, calls,
                   fault, syllables, text>>

NextT2S ==
    \/ T2SSkipNormalize \/ T2SNormalizeZh \/ T2SNormalizeEn \/ T2SNormalizeRaises
    \/ T2SPartZh \/ T2SPartEn \/ T2SPartEnRaises \/ T2SReturn

SpecT2S == InitT2S /\ [][NextT2S]_vars

\* C10 (as claimed): a normalization or grapheme-to-phoneme failure is isolated to
\* its segment: the call is not aborted, it goes on with the other segments and
\* returns their syllables.
FaultIsolated == fault # "none" => pc # "t2s_raised"

\* number of non-empty tokens of a string split at the space character
NumSpaceTokens(str) ==
    Cardinality({i \in DOMAIN str : str[i] # 32 /\ (i = 1 \/ str[i - 1] = 32)})

\* C11 (as claimed): in the record returned, syllable_num is the number of non-empty
\* space-separated tokens of the syllables string, whatever G2PEN returned.
SyllableNumCountsTokens ==
    pc = "t2s_returned" => ret.syllable_num = NumSpaceTokens(ret.syllables)

\* the calls made to the two normalizers, in order
RECURSIVE NormalizerCalls(_)
NormalizerCalls(cs) ==
    IF cs = <<>> THEN <<>>
    ELSE IF Head(cs).fn \in {"TNZH.normalize", "TNEN.normalize"}
         THEN <<Head(cs)>> \o NormalizerCalls(Tail(cs))
         ELSE NormalizerCalls(Tail(cs))

TextHasDigit == \E i \in DOMAIN text : text[i] \in 48..57
TextHasCJK == \E i \in DOMAIN text : IsCN(text[i])

\* C12: the normalization dispatch depends on two facts about the text only.  No
\* digit: no normalizer is called and normalized_text is the text.  A digit and a
\* CJK character: the Chinese normalizer alone is called, once, on the whole text.
\* A digit and no CJK character: the English normalizer alone is called, once, on
\* the whole text.
NormalizationDispatch ==
    pc # "t2s_start" =>
        IF ~TextHasDigit
        THEN NormalizerCalls(calls) = <<>> /\ normalized_text = text
        ELSE IF TextHasCJK
        THEN NormalizerCalls(calls) = << [fn |-> "TNZH.normalize", arg |-> text] >>
        ELSE NormalizerCalls(calls) = << [fn |-> "TNEN.normalize", arg |-> text] >>

\* a returned call on a text that holds a digit, then a CJK character, and a
\* non-CJK segment: the Chinese normalizer and G2PEN were both called
NormalizationDispatchWitness ==
    /\ pc = "t2s_returned"
    /\ TextHasDigit /\ TextHasCJK
    /\ ~IsCN(text[1])
    /\ Len(calls) >= 2
    /\ calls[1].fn = "TNZH.normalize"
    /\ ret.normalized_text # text

----------------------------------------------------------------------------
(* Further properties of tokenize                                          *)

\* the positions of the input after which a syllable of the list ends
RECURSIVE EndPositions(_)
EndPositions(ss) ==
    IF ss = <<>> THEN {}
    ELSE EndPositions(SubSeq(ss, 1, Len(ss) - 1)) \cup {Len(Flatten(ss))}

IsConsonant(c) == c \in DOMAIN phoneme_map /\ ~IsVowel(c)

\* positions i of the input where a vowel, one consonant and a vowel follow each other
ValleyPositions(tok) ==
    {i \in 1..(Len(tok) - 2) :
        IsVowel(tok[i]) /\ IsConsonant(tok[i + 1]) /\ IsVowel(tok[i + 2])}

\* C13: in the list returned for a sequence of known phonemes, a single consonant
\* between two vowels opens the syllable of the following vowel, and the preceding
\* vowel ends its own syllable.
ValleyRuleInOutput ==
    (pc = "done" /\ ~HasUnknown(token)) =>
        \A i \in ValleyPositions(token) :
            /\ Flatten(result) = token
            /\ i \in EndPositions(result)
            /\ (i + 1) \notin EndPositions(result)

\* a call on known phonemes with a vowel-consonant-vowel stretch in which the merge
\* pass joined a vowel-less syllable to its neighbour
ValleyRuleWitness ==
    /\ pc = "done"
    /\ ~HasUnknown(token)
    /\ ValleyPositions(token) # {}
    /\ Len(merged) < Len(scanned)
    /\ Len(result) >= 2

\* a list of phonemes without the symbols the sonority map does not hold
RECURSIVE KnownOnly(_)
KnownOnly(s) ==
    IF s = <<>> THEN <<>>
    ELSE IF Head(s) \in DOMAIN phoneme_map THEN <<Head(s)>> \o KnownOnly(Tail(s))
    ELSE KnownOnly(Tail(s))

\* a syllable list with the unknown symbols deleted from each syllable
DeleteUnknown(ss) == [k \in 1..Len(ss) |-> KnownOnly(ss[k])]

\* C14: tokenize completes on every phoneme sequence, and the list it returns, with
\* the unknown symbols deleted, is the list it returns for the input with its
\* unknown symbols deleted.
UnknownSymbolsIgnored ==
    /\ pc # "AssertionError"
    /\ pc = "done" =>
           DeleteUnknown(result) = tokenize(vowels, phoneme_map, KnownOnly(token))

\* a call on an input with an unknown symbol between known ones, split into several
\* syllables
UnknownSymbolsWitness ==
    /\ pc = "done"
    /\ \E i \in 2..(Len(token) - 1) : token[i] \notin DOMAIN phoneme_map
    /\ Len(KnownOnly(token)) >= 3
    /\ Len(result) >= 2

====
